---- MODULE Spec2Model ----
(***************************************************************************)
(* The translation gateway of the Real-Time Speech Translator:             *)
(* TranslationService (translationService.js) and the server's wrapper     *)
(* translateText around it.                                                *)
(*                                                                         *)
(* A JavaScript string is modelled as a sequence of one-character strings, *)
(* so that concatenation, toUpperCase and the template literals of the     *)
(* code are computed, not assumed.  Time is Date.now() in abstract units.  *)
(* An async function runs atomically up to each await; every await on a    *)
(* provider call is a point where other requests, the health timer and     *)
(* the administrative calls interleave.                                    *)
(*                                                                         *)
(* With it: the relay server's clients and sessions maps (server.js, the   *)
(* 'connection', 'join-session' and 'disconnect' handlers) and the browser *)
(* client's translateText over the socket (app.js).                        *)
(***************************************************************************)
EXTENDS Integers, Sequences, FiniteSets, TLC

\* ---------------------------------------------------------------- bounds
\* Date.now() ranges over 0..MaxTime.
MaxTime == 3
\* The ceiling of the rate window (100 in the code), scaled down.
maxRequests == 2
\* The width of the rate window (60 * 1000 ms in the code), in time units.
windowMs == 1
\* The cache's TTL (stdTTL: 3600 s in the code), in time units.
stdTTL == 2
\* The calls the browser makes to its translateText over one socket.
MaxCalls == 2

\* The requests that can be in progress at once.
Reqs == {1, 2}

\* ------------------------------------------------------------- JS strings
\* The value of an omitted argument.
Undefined == <<"undefined">>

\* JavaScript truthiness of a string or undefined: !x is ~Truthy(x).
Truthy(x) == x # Undefined /\ x # <<>>

\* String(x), as a template literal `${x}` converts x.
Str(x) == IF x = Undefined THEN <<"u", "n", "d", "e", "f", "i", "n", "e", "d">> ELSE x

UpperChar(c) ==
    CASE c = "a" -> "A"
      [] c = "e" -> "E"
      [] c = "n" -> "N"
      [] c = "s" -> "S"
      [] OTHER -> c

\* String.prototype.toUpperCase
toUpperCase(s) == [i \in DOMAIN s |-> UpperChar(s[i])]

\* The inputs a caller passes to translateText.
Texts == {<<>>, <<"a">>}
Sources == {<<"e", "n">>}
Targets == {Undefined, <<>>, <<"e", "s">>}

\* ---------------------------------------------------------------- chain
currentService == "google"
fallbackServices == <<"azure", "deepl", "microsoft">>
Fallbacks == {fallbackServices[i] : i \in DOMAIN fallbackServices}
Services == {currentService} \cup Fallbacks

\* The error field of a health record that has none.
NoError == "(absent)"

VARIABLES
    now,            \* Date.now()
    env,            \* env[s]: the credentials of fallback s are in process.env
    googleTranslate,\* this.googleTranslate is not null
    cache,          \* this.cache: key -> [v: value, t: expiry time]
    requestCounts,  \* this.requestCounts: timestamp -> count
    serviceHealth,  \* this.serviceHealth: service -> [status, error]
    req,            \* req[r]: the translateText call r
    history,        \* whether this run keeps the admissions
    admissions,     \* history: time -> requests that passed the rate check then
    clients,        \* relay: clients, socket id -> [sessionId]
    sessions,       \* relay: sessions, session id -> participants
    sockets,        \* relay: socket id -> "new", "open" or "closed"
    listeners,      \* browser: the listeners of 'translation-sent', in order
    promises,       \* browser: call -> the promise translateText returned
    translating,    \* server: the 'translate-request' handlers awaiting translateText
    wire            \* the 'translation-sent' events on their way to the browser

gatewayVars == <<now, env, googleTranslate, cache, requestCounts, serviceHealth, req, history, admissions>>
relayVars == <<clients, sessions, sockets>>
browserVars == <<listeners, promises, translating, wire>>

vars == <<gatewayVars, relayVars, browserVars>>

\* ------------------------------------------------------ provider adapters
\* What a provider answers is the environment's choice: a translation that
\* names the provider and the text, or the empty string.
Tag(service) ==
    CASE service = "google" -> "G"
      [] service = "azure" -> "Z"
      [] service = "deepl" -> "D"
      [] OTHER -> "M"

Translation(service, text) == <<Tag(service)>> \o Str(text)

Outputs(service, text) == {<<>>, Translation(service, text)}

NetworkError == "network error"
NotInitialized == "Google Translate not initialized"
NotConfigured == "credentials not configured"

\* translateWithGoogle: rejects at once without a client, else the call's
\* result or error.  net: the provider was contacted over the network.
GoogleErrors == IF googleTranslate THEN {NetworkError} ELSE {NotInitialized}
GoogleResults(text) == IF googleTranslate THEN Outputs("google", text) ELSE {}

\* translateWithFallback / translateWithAzure, -DeepL, -Microsoft: rejects at
\* once without credentials, else the call's result or error.
FallbackErrors(service) == IF env[service] THEN {NetworkError} ELSE {NotConfigured}
FallbackResults(service, text) == IF env[service] THEN Outputs(service, text) ELSE {}

\* ------------------------------------------------------------------ cache
cacheKey(text, src, tgt) == Str(text) \o <<"_">> \o Str(src) \o <<"_">> \o Str(tgt)

\* node-cache: an entry is expired once its time t is before Date.now().
CacheLive(c, key, t) == key \in DOMAIN c /\ ~(c[key].t < t)

\* cache.get(key): the value, or Undefined for an absent or expired entry.
CacheGet(c, key, t) == IF CacheLive(c, key, t) THEN c[key].v ELSE Undefined

\* cache.get(key) deletes an expired entry it finds.
CacheAfterGet(c, key, t) ==
    IF key \in DOMAIN c /\ c[key].t < t
    THEN [k \in DOMAIN c \ {key} |-> c[k]]
    ELSE c

\* cache.set(key, value) with the standard TTL.
CacheSet(c, key, value, t) ==
    [k \in DOMAIN c \cup {key} |-> IF k = key THEN [v |-> value, t |-> t + stdTTL] ELSE c[k]]

\* ------------------------------------------------------------ rate window
RECURSIVE SumCounts(_)
SumCounts(rc) ==
    IF DOMAIN rc = {} THEN 0
    ELSE LET ts == CHOOSE x \in DOMAIN rc : TRUE
         IN rc[ts] + SumCounts([x \in DOMAIN rc \ {ts} |-> rc[x]])

\* isRateLimited, "Clean old entries".
PurgeOld(rc, t) == [ts \in {x \in DOMAIN rc : ~(t - x > windowMs)} |-> rc[ts]]

\* isRateLimited, the value returned.
isRateLimited(rc, t) == SumCounts(PurgeOld(rc, t)) >= maxRequests

incrementRequestCount(rc, t) ==
    [ts \in DOMAIN rc \cup {t} |-> IF ts = t THEN (IF t \in DOMAIN rc THEN rc[t] ELSE 0) + 1 ELSE rc[ts]]

totalRequestsAllEntries(rc, t) == SumCounts(rc)

\* getRequestStats, the loop that adds up the counts inside the window.
totalRequests(rc, t) == SumCounts([ts \in {x \in DOMAIN rc : t - x <= windowMs} |-> rc[ts]])

\* getRequestStats, the object returned at time t.
getRequestStatsResult(rc, t) ==
    [totalRequests |-> totalRequests(rc, t),
     windowMs |-> windowMs,
     isRateLimited |-> isRateLimited(rc, t)]

\* ----------------------------------------------------------------- health
updateServiceHealthStatusOnly(h, service, status, error) ==
    [h EXCEPT ![service] = [status |-> status, error |-> @.error]]

updateServiceHealth(h, service, status, error) ==
    [h EXCEPT ![service] = [status |-> status,
                            error |-> IF error # NoError THEN error ELSE @.error]]

checkServiceHealthTwoCases(h, service) ==
    [h EXCEPT ![service] =
        [status |-> IF service \in {"azure", "deepl"}
                    THEN (IF env[service] THEN "configured" ELSE "unconfigured")
                    ELSE "unknown",
         error |-> NoError]]

checkServiceHealth(h, service) ==
    [h EXCEPT ![service] =
        [status |-> IF service \in Fallbacks
                    THEN (IF env[service] THEN "configured" ELSE "unconfigured")
                    ELSE "unknown",
         error |-> NoError]]

RECURSIVE CheckAll(_, _)
CheckAll(h, k) ==
    IF k > Len(fallbackServices) THEN h
    ELSE CheckAll(checkServiceHealth(h, fallbackServices[k]), k + 1)

\* --------------------------------------------------------------- requests
NoOut == [kind |-> "none", val |-> <<>>, err |-> NoError]
Return(v) == [kind |-> "return", val |-> v, err |-> NoError]
Throw(e) == [kind |-> "throw", val |-> <<>>, err |-> e]

InvalidRequest == "Text and target language are required"
RateLimited == "Rate limit exceeded. Please try again later."

Idle == [pc |-> "idle", text |-> <<>>, src |-> <<>>, tgt |-> <<>>, idx |-> 0,
         att |-> <<>>, out |-> NoOut]

InvalidTextOnly(text, tgt) == ~Truthy(text)

\* translateText, the test that rejects a request without text or target.
Invalid(text, tgt) == ~Truthy(text) \/ ~Truthy(tgt)

InFlight(r) == req[r].pc \in {"google", "fallback"}

\* No finished call is waiting for its caller to take the outcome.
NoneDone == \A r \in Reqs : req[r].pc # "done"

\* One provider attempt of a request, for the record.
Attempt(service, ok, val, net) == [svc |-> service, ok |-> ok, val |-> val, net |-> net]

PassthroughAsGiven(tgt, text) == <<"[">> \o Str(tgt) \o <<"]", " ">> \o Str(text)

\* translateText, the degraded result.
Passthrough(tgt, text) == <<"[">> \o toUpperCase(tgt) \o <<"]", " ">> \o Str(text)

TryFallbacksOrThrow(s, k, h) ==
    LET js == {j \in k..Len(fallbackServices) : h[fallbackServices[j]].status = "configured"}
    IN IF js = {}
       THEN [s EXCEPT !.pc = "done", !.idx = 0, !.out = Throw("All translation services failed")]
       ELSE [s EXCEPT !.pc = "fallback", !.idx = CHOOSE j \in js : \A i \in js : j <= i]

TryFallbacksAll(s, k, h) ==
    IF k > Len(fallbackServices)
    THEN [s EXCEPT !.pc = "done", !.idx = 0, !.out = Return(Passthrough(s.tgt, s.text))]
    ELSE [s EXCEPT !.pc = "fallback", !.idx = k]

\* translateText, "Try fallback services" from position k of the list: the
\* request waits on the first service whose status is 'configured', or
\* returns the degraded result when there is none.
TryFallbacks(s, k, h) ==
    LET js == {j \in k..Len(fallbackServices) : h[fallbackServices[j]].status = "configured"}
    IN IF js = {}
       THEN [s EXCEPT !.pc = "done", !.idx = 0, !.out = Return(Passthrough(s.tgt, s.text))]
       ELSE [s EXCEPT !.pc = "fallback", !.idx = CHOOSE j \in js : \A i \in js : j <= i]

\* History: the admissions still inside the window at time t.
AdmInWindow(a, t) == [ts \in {x \in DOMAIN a : ~(t - x > windowMs)} |-> a[ts]]

\* History: one more admission at time t (counted up to the ceiling).
Admit(a, t) ==
    LET w == AdmInWindow(a, t)
        n == IF t \in DOMAIN w THEN w[t] ELSE 0
    IN [ts \in DOMAIN w \cup {t} |-> IF ts = t THEN (IF n < maxRequests THEN n + 1 ELSE n) ELSE w[ts]]

\* ------------------------------------------------------------------ relay
\* The socket ids socket.io gives out, each to one connection.
SocketIds == {"s1", "s2", "s3"}

\* The sessionId values a 'join-session' event carries.
SessionIds == {<<>>, <<"A">>, <<"B">>}

\* ---------------------------------------------------------------- browser
\* The calls of the browser's translateText.
Calls == 1..MaxCalls

\* The texts the browser asks to translate.
CallTexts == {<<"a">>, <<"b">>}

\* this.targetLanguage.value, the select's choice.
targetLang == <<"e", "s">>

NoPromise == [state |-> "none", text |-> <<>>, val |-> <<>>]

\* ------------------------------------------------------------------- Init
\* The state after new TranslationService(): initializeServices has set one
\* health record per service from the credentials present.
Start ==
    /\ now = 0
    /\ env \in [Fallbacks -> BOOLEAN]
    /\ googleTranslate \in BOOLEAN
    /\ \E googleStatus \in IF googleTranslate THEN {"healthy"} ELSE {"unconfigured", "error"} :
          serviceHealth =
              [s \in Services |->
                  IF s = currentService
                  THEN [status |-> googleStatus,
                        error |-> IF googleStatus = "error" THEN "init failed" ELSE NoError]
                  ELSE [status |-> IF env[s] THEN "configured" ELSE "unconfigured",
                        error |-> NoError]]
    /\ cache = <<>>
    /\ requestCounts = <<>>
    /\ req = [r \in Reqs |-> Idle]
    /\ admissions = <<>>
    /\ clients = <<>>
    /\ sessions = <<>>
    /\ sockets = [id \in SocketIds |-> "new"]
    /\ listeners = <<>>
    /\ promises = [c \in Calls |-> NoPromise]
    /\ translating = <<>>
    /\ wire = <<>>

Init == Start /\ history = FALSE

\* A deployment with the primary provider's key, the admissions kept.
InitHistory == Start /\ history = TRUE /\ googleTranslate

\* ---------------------------------------------------------------- actions
translateTextCountsRejected(r, text, src, tgt) ==
    /\ NoneDone
    /\ req[r].pc = "idle"
    /\ \A q \in Reqs : q < r => InFlight(q)
    /\ LET s == [Idle EXCEPT !.text = text, !.src = src, !.tgt = tgt]
           key == cacheKey(text, src, tgt)
           cachedResult == CacheGet(cache, key, now)
       IN IF Invalid(text, tgt)
          THEN /\ req' = [req EXCEPT ![r] = [s EXCEPT !.pc = "done", !.out = Throw(InvalidRequest)]]
               /\ UNCHANGED <<cache, requestCounts, history, admissions>>
          ELSE IF Truthy(cachedResult)
          THEN /\ req' = [req EXCEPT ![r] = [s EXCEPT !.pc = "done", !.out = Return(cachedResult)]]
               /\ UNCHANGED <<cache, requestCounts, history, admissions>>
          ELSE /\ cache' = CacheAfterGet(cache, key, now)
               /\ requestCounts' = incrementRequestCount(PurgeOld(requestCounts, now), now)
               /\ IF isRateLimited(requestCounts, now)
                  THEN /\ req' = [req EXCEPT ![r] = [s EXCEPT !.pc = "done", !.out = Throw(RateLimited)]]
                       /\ UNCHANGED admissions
                  ELSE /\ req' = [req EXCEPT ![r] = [s EXCEPT !.pc = "google"]]
                       /\ admissions' = IF history THEN Admit(admissions, now) ELSE admissions
    /\ UNCHANGED <<now, env, googleTranslate, serviceHealth, history, relayVars, browserVars>>

\* translateText(text, src, tgt), up to its first await: validation, the
\* cache lookup, the rate check, and the call to the primary provider.
translateText(r, text, src, tgt) ==
    /\ NoneDone
    /\ req[r].pc = "idle"
    /\ \A q \in Reqs : q < r => InFlight(q)
    /\ LET s == [Idle EXCEPT !.text = text, !.src = src, !.tgt = tgt]
           key == cacheKey(text, src, tgt)
           cachedResult == CacheGet(cache, key, now)
       IN IF Invalid(text, tgt)
          THEN /\ req' = [req EXCEPT ![r] = [s EXCEPT !.pc = "done", !.out = Throw(InvalidRequest)]]
               /\ UNCHANGED <<cache, requestCounts, history, admissions>>
          ELSE IF Truthy(cachedResult)
          THEN /\ req' = [req EXCEPT ![r] = [s EXCEPT !.pc = "done", !.out = Return(cachedResult)]]
               /\ UNCHANGED <<cache, requestCounts, history, admissions>>
          ELSE /\ cache' = CacheAfterGet(cache, key, now)
               /\ requestCounts' = PurgeOld(requestCounts, now)
               /\ IF isRateLimited(requestCounts, now)
                  THEN /\ req' = [req EXCEPT ![r] = [s EXCEPT !.pc = "done", !.out = Throw(RateLimited)]]
                       /\ UNCHANGED admissions
                  ELSE /\ req' = [req EXCEPT ![r] = [s EXCEPT !.pc = "google"]]
                       /\ admissions' = IF history THEN Admit(admissions, now) ELSE admissions
    /\ UNCHANGED <<now, env, googleTranslate, serviceHealth, history, relayVars, browserVars>>

GoogleResolvesThenFallbacks(r) ==
    /\ NoneDone
    /\ req[r].pc = "google"
    /\ \E result \in GoogleResults(req[r].text) :
          /\ cache' = CacheSet(cache, cacheKey(req[r].text, req[r].src, req[r].tgt), result, now)
          /\ requestCounts' = incrementRequestCount(requestCounts, now)
          /\ req' = [req EXCEPT ![r] =
                TryFallbacks([@ EXCEPT !.out = Return(result),
                                       !.att = Append(@, Attempt("google", TRUE, result, TRUE))],
                             1, serviceHealth)]
    /\ UNCHANGED <<now, env, googleTranslate, serviceHealth, history, admissions, relayVars, browserVars>>

\* translateText resumes with the primary provider's result.
GoogleResolves(r) ==
    /\ NoneDone
    /\ req[r].pc = "google"
    /\ \E result \in GoogleResults(req[r].text) :
          /\ cache' = CacheSet(cache, cacheKey(req[r].text, req[r].src, req[r].tgt), result, now)
          /\ requestCounts' = incrementRequestCount(requestCounts, now)
          /\ req' = [req EXCEPT ![r] =
                [@ EXCEPT !.pc = "done", !.out = Return(result),
                          !.att = Append(@, Attempt("google", TRUE, result, TRUE))]]
    /\ UNCHANGED <<now, env, googleTranslate, serviceHealth, history, admissions, relayVars, browserVars>>

\* translateText resumes in the catch block of the primary provider's call
\* and walks the fallback list to the next await or to the end.
GoogleRejects(r) ==
    /\ NoneDone
    /\ req[r].pc = "google"
    /\ \E error \in GoogleErrors :
          req' = [req EXCEPT ![r] =
                TryFallbacks([@ EXCEPT !.att = Append(@, Attempt("google", FALSE, <<>>, googleTranslate))],
                             1, serviceHealth)]
    /\ UNCHANGED <<now, env, googleTranslate, cache, requestCounts, serviceHealth, history, admissions, relayVars, browserVars>>

\* translateText resumes with a fallback's result: a truthy one is cached,
\* counted and returned, with any other the walk goes on.
FallbackResolves(r) ==
    /\ NoneDone
    /\ req[r].pc = "fallback"
    /\ LET service == fallbackServices[req[r].idx]
       IN \E result \in FallbackResults(service, req[r].text) :
             LET s == [req[r] EXCEPT !.att = Append(@, Attempt(service, TRUE, result, TRUE))]
             IN IF Truthy(result)
                THEN /\ cache' = CacheSet(cache, cacheKey(s.text, s.src, s.tgt), result, now)
                     /\ requestCounts' = incrementRequestCount(requestCounts, now)
                     /\ req' = [req EXCEPT ![r] = [s EXCEPT !.pc = "done", !.out = Return(result)]]
                ELSE /\ req' = [req EXCEPT ![r] = TryFallbacks(s, s.idx + 1, serviceHealth)]
                     /\ UNCHANGED <<cache, requestCounts>>
    /\ UNCHANGED <<now, env, googleTranslate, serviceHealth, history, admissions, relayVars, browserVars>>

\* translateText resumes in the catch block of a fallback's call: the
\* failure is recorded and the walk goes on.
FallbackRejects(r) ==
    /\ NoneDone
    /\ req[r].pc = "fallback"
    /\ LET service == fallbackServices[req[r].idx]
       IN \E error \in FallbackErrors(service) :
             LET s == [req[r] EXCEPT !.att = Append(@, Attempt(service, FALSE, <<>>, env[service]))]
                 h == updateServiceHealth(serviceHealth, service, "error", error)
             IN /\ serviceHealth' = h
                /\ req' = [req EXCEPT ![r] = TryFallbacks(s, s.idx + 1, h)]
    /\ UNCHANGED <<now, env, googleTranslate, cache, requestCounts, history, admissions, relayVars, browserVars>>

\* The caller has taken the outcome of call r.
Taken(r) ==
    /\ req[r].pc = "done"
    /\ req' = [req EXCEPT ![r] = Idle]
    /\ UNCHANGED <<now, env, googleTranslate, cache, requestCounts, serviceHealth, history, admissions, relayVars, browserVars>>

HealthTimerKeepsExercised ==
    /\ NoneDone
    /\ serviceHealth' =
          [s \in Services |->
              IF serviceHealth[s].status \in {"healthy", "error"}
              THEN serviceHealth[s]
              ELSE CheckAll(serviceHealth, 1)[s]]
    /\ UNCHANGED <<now, env, googleTranslate, cache, requestCounts, req, history, admissions, relayVars, browserVars>>

\* startHealthMonitoring, the interval's callback.
HealthTimer ==
    /\ NoneDone
    /\ serviceHealth' = CheckAll(serviceHealth, 1)
    /\ UNCHANGED <<now, env, googleTranslate, cache, requestCounts, req, history, admissions, relayVars, browserVars>>

testServiceSilentFailure(service) ==
    /\ NoneDone
    /\ \/ /\ FallbackResults(service, <<"a">>) # {}
          /\ serviceHealth' = updateServiceHealth(serviceHealth, service, "healthy", NoError)
       \/ \E error \in FallbackErrors(service) :
             serviceHealth' = updateServiceHealth(serviceHealth, service, "error", NoError)
    /\ UNCHANGED <<now, env, googleTranslate, cache, requestCounts, req, history, admissions, relayVars, browserVars>>

testServiceCounted(service) ==
    /\ NoneDone
    /\ ~isRateLimited(requestCounts, now)
    /\ requestCounts' = incrementRequestCount(PurgeOld(requestCounts, now), now)
    /\ \/ /\ FallbackResults(service, <<"a">>) # {}
          /\ serviceHealth' = updateServiceHealth(serviceHealth, service, "healthy", NoError)
       \/ \E error \in FallbackErrors(service) :
             serviceHealth' = updateServiceHealth(serviceHealth, service, "error", error)
    /\ UNCHANGED <<now, env, googleTranslate, cache, req, history, admissions, relayVars, browserVars>>

\* testService(service), at the completion of its provider call.
testService(service) ==
    /\ NoneDone
    /\ \/ /\ FallbackResults(service, <<"a">>) # {}
          /\ serviceHealth' = updateServiceHealth(serviceHealth, service, "healthy", NoError)
       \/ \E error \in FallbackErrors(service) :
             serviceHealth' = updateServiceHealth(serviceHealth, service, "error", error)
    /\ UNCHANGED <<now, env, googleTranslate, cache, requestCounts, req, history, admissions, relayVars, browserVars>>

clearCacheShortensTTL ==
    /\ NoneDone
    /\ cache' = [k \in DOMAIN cache |-> [cache[k] EXCEPT !.t = now]]
    /\ UNCHANGED <<now, env, googleTranslate, requestCounts, serviceHealth, req, history, admissions, relayVars, browserVars>>

clearCache ==
    /\ NoneDone
    /\ cache' = <<>>
    /\ UNCHANGED <<now, env, googleTranslate, requestCounts, serviceHealth, req, history, admissions, relayVars, browserVars>>

\* getRequestStats() calls isRateLimited(), which cleans the old entries.
getRequestStats ==
    /\ NoneDone
    /\ requestCounts' = PurgeOld(requestCounts, now)
    /\ UNCHANGED <<now, env, googleTranslate, cache, serviceHealth, req, history, admissions, relayVars, browserVars>>

\* Time passes.
Tick ==
    /\ NoneDone
    /\ now < MaxTime
    /\ now' = now + 1
    /\ admissions' = IF history THEN AdmInWindow(admissions, now + 1) ELSE admissions
    /\ UNCHANGED <<env, googleTranslate, cache, requestCounts, serviceHealth, req, history, relayVars, browserVars>>

\* The server's translateText around the service's (the call the socket
\* handler makes): what it gives for the finished call s.
serverTranslateText(s) ==
    IF s.out.kind = "return" THEN s.out
    ELSE IF s.tgt = Undefined THEN Throw("TypeError: Cannot read properties of undefined")
    ELSE Return(<<"[">> \o toUpperCase(s.tgt) \o <<"]", " ">> \o Str(s.text))

\* One caller at a time, with every administrative operation and the timer.
Next ==
    \/ \E text \in Texts, src \in Sources, tgt \in Targets : translateText(1, text, src, tgt)
    \/ \E r \in Reqs : GoogleResolves(r)
    \/ \E r \in Reqs : GoogleRejects(r)
    \/ \E r \in Reqs : FallbackResolves(r)
    \/ \E r \in Reqs : FallbackRejects(r)
    \/ \E r \in Reqs : Taken(r)
    \/ HealthTimer
    \/ \E service \in Fallbacks : testService(service)
    \/ clearCache
    \/ getRequestStats
    \/ Tick

Spec == Init /\ [][Next]_vars

\* Concurrent callers, without the health operations.
NextConcurrent ==
    \/ \E r \in Reqs, text \in Texts, src \in Sources, tgt \in Targets : translateText(r, text, src, tgt)
    \/ \E r \in Reqs : GoogleResolves(r)
    \/ \E r \in Reqs : GoogleRejects(r)
    \/ \E r \in Reqs : FallbackResolves(r)
    \/ \E r \in Reqs : FallbackRejects(r)
    \/ \E r \in Reqs : Taken(r)
    \/ clearCache
    \/ getRequestStats
    \/ Tick

SpecConcurrent == Init /\ [][NextConcurrent]_vars

\* One caller at a time, with the admissions kept.
NextHistory ==
    \/ \E text \in Texts, src \in Sources, tgt \in Targets : translateText(1, text, src, tgt)
    \/ \E r \in Reqs : GoogleResolves(r)
    \/ \E r \in Reqs : GoogleRejects(r)
    \/ \E r \in Reqs : FallbackResolves(r)
    \/ \E r \in Reqs : FallbackRejects(r)
    \/ \E r \in Reqs : Taken(r)
    \/ clearCache
    \/ getRequestStats
    \/ Tick

SpecHistory == InitHistory /\ [][NextHistory]_vars

\* One caller at a time with the timer and testService, time standing still,
\* under the scheduling the code gives: the caller takes a finished call's
\* outcome, the interval's callback keeps firing, and a fallback's call ends
\* within its axios timeout of 10 s, and translateWithGoogle throws at once
\* when there is no client.  The call to Google through the client is given
\* no timeout in the code, so nothing obliges it to end.
NextLive ==
    \/ \E text \in Texts, src \in Sources, tgt \in Targets : translateText(1, text, src, tgt)
    \/ \E r \in Reqs : GoogleResolves(r)
    \/ \E r \in Reqs : GoogleRejects(r)
    \/ \E r \in Reqs : FallbackResolves(r)
    \/ \E r \in Reqs : FallbackRejects(r)
    \/ \E r \in Reqs : Taken(r)
    \/ HealthTimer
    \/ \E service \in Fallbacks : testService(service)

Fairness ==
    /\ WF_vars(\E r \in Reqs : Taken(r))
    /\ SF_vars(HealthTimer)
    /\ WF_vars(\E r \in Reqs : FallbackResolves(r) \/ FallbackRejects(r))
    /\ WF_vars(\E r \in Reqs : ~googleTranslate /\ GoogleRejects(r))

SpecLive == Init /\ [][NextLive]_vars /\ Fairness

\* The inputs of callers that name languages in more than one way, and
\* texts that hold the separator of the cache key.
KeyTexts == {<<"a">>, <<"a", "_", "z", "h">>}
KeySources == {Undefined, <<"a", "u", "t", "o">>, <<"C", "N">>, <<"z", "h", "_", "C", "N">>}
KeyTargets == {<<"e", "n">>}

\* translateWithGoogle (and the fallbacks' adapters): the source language
\* sent to the provider, sourceLanguage || 'auto'.
fromLanguage(src) == IF Truthy(src) THEN src ELSE <<"a", "u", "t", "o">>

\* A deployment with the primary provider alone.
InitKeys ==
    /\ Start
    /\ history = FALSE
    /\ googleTranslate
    /\ \A s \in Fallbacks : ~env[s]

NextKeys ==
    \/ \E text \in KeyTexts, src \in KeySources, tgt \in KeyTargets : translateText(1, text, src, tgt)
    \/ \E r \in Reqs : GoogleResolves(r)
    \/ \E r \in Reqs : GoogleRejects(r)
    \/ \E r \in Reqs : Taken(r)
    \/ clearCache
    \/ Tick

SpecKeys == InitKeys /\ [][NextKeys]_vars

\* ------------------------------------------------------------ relay server
\* Map.prototype.set and Map.prototype.delete.
MapSet(m, k, v) == [x \in DOMAIN m \cup {k} |-> IF x = k THEN v ELSE m[x]]
MapDelete(m, k) == [x \in DOMAIN m \ {k} |-> m[x]]

\* io.on('connection'): the client's record, without a sessionId yet.
connection(id) ==
    /\ sockets[id] = "new"
    /\ sockets' = [sockets EXCEPT ![id] = "open"]
    /\ clients' = MapSet(clients, id, [sessionId |-> Undefined])
    /\ UNCHANGED <<sessions, gatewayVars, browserVars>>

\* socket.on('join-session').
joinSession(id, sessionId) ==
    /\ sockets[id] = "open"
    /\ clients' = [clients EXCEPT ![id].sessionId = sessionId]
    /\ LET created == IF sessionId \in DOMAIN sessions
                      THEN sessions
                      ELSE MapSet(sessions, sessionId, [participants |-> {}])
       IN  sessions' = [created EXCEPT ![sessionId].participants = @ \cup {id}]
    /\ UNCHANGED <<sockets, gatewayVars, browserVars>>

\* A disconnect that leaves the emptied session in the map.
disconnectKeepsEmpty(id) ==
    /\ sockets[id] = "open"
    /\ sockets' = [sockets EXCEPT ![id] = "closed"]
    /\ IF id \in DOMAIN clients /\ Truthy(clients[id].sessionId)
          /\ clients[id].sessionId \in DOMAIN sessions
       THEN sessions' = [sessions EXCEPT ![clients[id].sessionId].participants = @ \ {id}]
       ELSE sessions' = sessions
    /\ clients' = MapDelete(clients, id)
    /\ UNCHANGED <<gatewayVars, browserVars>>

\* socket.on('disconnect').
disconnect(id) ==
    /\ sockets[id] = "open"
    /\ sockets' = [sockets EXCEPT ![id] = "closed"]
    /\ IF id \in DOMAIN clients /\ Truthy(clients[id].sessionId)
          /\ clients[id].sessionId \in DOMAIN sessions
       THEN LET sessionId == clients[id].sessionId
                left == sessions[sessionId].participants \ {id}
            IN  sessions' = IF left = {}
                            THEN MapDelete(sessions, sessionId)
                            ELSE [sessions EXCEPT ![sessionId].participants = left]
       ELSE sessions' = sessions
    /\ clients' = MapDelete(clients, id)
    /\ UNCHANGED <<gatewayVars, browserVars>>

\* The relay's sockets over a gateway at rest.
NextRelay ==
    \/ \E id \in SocketIds : connection(id)
    \/ \E id \in SocketIds, sessionId \in SessionIds : joinSession(id, sessionId)
    \/ \E id \in SocketIds : disconnect(id)

SpecRelay == InitKeys /\ [][NextRelay]_vars

\* ----------------------------------------------------------- browser client
\* The catch branch of the browser's translateText.
browserFallback(text) == <<"[">> \o toUpperCase(targetLang) \o <<"]", " ">> \o text

\* The service's calls as the server's handler can find them finished for
\* text: a provider's translation, or the rate limit's rejection.
FinishedCalls(text) ==
    {[text |-> text, tgt |-> targetLang, out |-> o] :
        o \in {Return(Translation(s, text)) : s \in Services} \cup {Throw(RateLimited)}}

\* The browser's translateText up to the promise it returns.  On a connected
\* socket: the timer, the 'translate-request' event, which starts the
\* server's handler, and the listener of 'translation-sent'.
browserTranslateText(c, text, connected) ==
    /\ promises[c].state = "none"
    /\ \A d \in Calls : d < c => promises[d].state # "none"
    /\ IF connected
       THEN /\ promises' = [promises EXCEPT ![c] = [state |-> "pending", text |-> text, val |-> <<>>]]
            /\ translating' = Append(translating, text)
            /\ listeners' = Append(listeners, c)
       ELSE /\ promises' = [promises EXCEPT ![c] =
                               [state |-> "resolved", text |-> text, val |-> browserFallback(text)]]
            /\ UNCHANGED <<translating, listeners>>
    /\ UNCHANGED <<wire, gatewayVars, relayVars>>

\* socket.on('translate-request') from its await on: the i-th handler gets
\* the outcome of translateText and emits 'translation-sent', or 'error'.
translateRequest(i, s) ==
    /\ i \in DOMAIN translating
    /\ s \in FinishedCalls(translating[i])
    /\ translating' = [j \in 1..(Len(translating) - 1) |->
                          IF j < i THEN translating[j] ELSE translating[j + 1]]
    /\ LET translation == serverTranslateText(s)
       IN  IF translation.kind = "return"
           THEN wire' = Append(wire, [originalText |-> translating[i],
                                      translatedText |-> translation.val])
           ELSE wire' = wire
    /\ UNCHANGED <<listeners, promises, gatewayVars, relayVars>>

\* The socket gives the next 'translation-sent' event to every listener
\* registered: each handleTranslation clears its timer, removes itself and
\* resolves its promise, which a settled promise ignores.
translationSent ==
    /\ wire # <<>>
    /\ LET data == Head(wire)
           called == {listeners[i] : i \in DOMAIN listeners}
       IN  promises' = [c \in Calls |->
                           IF c \in called /\ promises[c].state = "pending"
                           THEN [promises[c] EXCEPT !.state = "resolved", !.val = data.translatedText]
                           ELSE promises[c]]
    /\ listeners' = <<>>
    /\ wire' = Tail(wire)
    /\ UNCHANGED <<translating, gatewayVars, relayVars>>

\* The timer of call c fires: the promise rejects, the listener stays.
translationTimeout(c) ==
    /\ promises[c].state = "pending"
    /\ promises' = [promises EXCEPT ![c].state = "rejected"]
    /\ UNCHANGED <<listeners, translating, wire, gatewayVars, relayVars>>

\* The browser's calls over one socket, the server answering in any order.
NextBrowser ==
    \/ \E c \in Calls, text \in CallTexts, connected \in BOOLEAN : browserTranslateText(c, text, connected)
    \/ \E i \in 1..MaxCalls, text \in CallTexts : \E s \in FinishedCalls(text) : translateRequest(i, s)
    \/ translationSent
    \/ \E c \in Calls : translationTimeout(c)

SpecBrowser == InitKeys /\ [][NextBrowser]_vars

\* ----------------------------------------------------------------- claims
Done(r) == req[r].pc = "done"

\* Call r begins in this step.
Begins(r) == req[r].pc = "idle" /\ req'[r].pc # "idle"

KeyOf(s) == cacheKey(s.text, s.src, s.tgt)

\* The request has text and a target language.
WellFormed(s) == s.text \notin {Undefined, <<>>} /\ s.tgt \notin {Undefined, <<>>}

\* Some provider was tried for the call and every call to one failed.
AllFailed(s) == s.att # <<>> /\ \A i \in DOMAIN s.att : ~s.att[i].ok

\* C1: a request whose key has a present, non-expired cache entry returns
\* that entry's value, tries no provider, and leaves the rate window and
\* the health records as they were.
C1_CacheHitIsFree ==
    [][\A r \in Reqs :
          (Begins(r) /\ WellFormed(req'[r]) /\ CacheLive(cache, KeyOf(req'[r]), now))
          => /\ req'[r].pc = "done"
             /\ req'[r].out = Return(cache[KeyOf(req'[r])].v)
             /\ req'[r].att = <<>>
             /\ requestCounts' = requestCounts
             /\ serviceHealth' = serviceHealth]_vars

\* C2: the value returned by a call that tried providers is the output of
\* the first provider whose call succeeded.
C2_FirstSuccessReturned ==
    \A r \in Reqs :
        Done(r) =>
            \A i \in DOMAIN req[r].att :
                (req[r].att[i].ok /\ \A j \in 1..(i - 1) : ~req[r].att[j].ok)
                => req[r].out = Return(req[r].att[i].val)

\* C3: when every provider tried has failed (the others were skipped) the
\* call returns '[' + upper-cased target + '] ' + text, and no step of that
\* call writes the cache.
C3_UpperCase(s) ==
    [i \in DOMAIN s |-> CASE s[i] = "e" -> "E" [] s[i] = "s" -> "S" [] OTHER -> s[i]]

C3_DegradedPassthrough ==
    [][\A r \in Reqs :
          (req'[r] # req[r] /\ AllFailed(req'[r]))
          => /\ cache' = cache
             /\ req'[r].pc = "done" =>
                   req'[r].out = Return(<<"[">> \o C3_UpperCase(req'[r].tgt) \o <<"]", " ">> \o req'[r].text)]_vars

C3_Witness ==
    \E r \in Reqs :
        /\ Done(r)
        /\ AllFailed(req[r])
        /\ Len(req[r].att) > 1
        /\ req[r].out = Return(<<"[", "E", "S", "]", " ", "a">>)
        /\ KeyOf(req[r]) \notin DOMAIN cache

\* C4: with as many admissions inside the window as the ceiling allows, the
\* next request that misses the cache is rejected before any provider is
\* tried; with no admission left inside the window, it is admitted.
C4_Admissions == SumCounts(AdmInWindow(admissions, now))

C4_AdmissionControl ==
    [][\A r \in Reqs :
          (Begins(r) /\ WellFormed(req'[r]) /\ ~CacheLive(cache, KeyOf(req'[r]), now))
          => /\ C4_Admissions >= maxRequests =>
                   (req'[r].out = Throw(RateLimited) /\ req'[r].att = <<>>)
             /\ C4_Admissions = 0 => req'[r].pc = "google"]_vars

\* C5: the counts inside the rate window never add up to more than the
\* ceiling.
C5_WindowWithinCeiling == SumCounts(PurgeOld(requestCounts, now)) <= maxRequests

\* C6: a request without text or without a target language fails with
\* InvalidRequest, tries no provider, and leaves the cache, the rate window
\* and the health records as they were.
C6_InvalidRequestIsFree ==
    [][\A r \in Reqs :
          (Begins(r) /\ ~WellFormed(req'[r]))
          => /\ req'[r].pc = "done"
             /\ req'[r].out = Throw(InvalidRequest)
             /\ req'[r].att = <<>>
             /\ cache' = cache
             /\ requestCounts' = requestCounts
             /\ serviceHealth' = serviceHealth]_vars

C6_Witness ==
    \E r \in Reqs :
        /\ Done(r)
        /\ req[r].tgt = Undefined
        /\ req[r].text = <<"a">>
        /\ req[r].out = Throw(InvalidRequest)
        /\ cache # <<>>

\* C7: a call with text and a target language returns a string or fails
\* with RateLimited; no call fails with anything but InvalidRequest or
\* RateLimited.
C7_OnlyTwoFailures ==
    \A r \in Reqs :
        Done(r) =>
            /\ req[r].out.kind \in {"return", "throw"}
            /\ req[r].out.kind = "throw" => req[r].out.err \in {InvalidRequest, RateLimited}
            /\ WellFormed(req[r]) => req[r].out \in {Return(req[r].out.val), Throw(RateLimited)}

C7_Witness ==
    \E r \in Reqs :
        /\ Done(r)
        /\ \E i \in DOMAIN req[r].att : ~req[r].att[i].ok /\ req[r].att[i].net
        /\ Len(req[r].att) = 1 + Len(fallbackServices)
        /\ req[r].out.kind = "return"

\* C8: the server's translateText never throws: every finished call gives
\* the caller a string.
C8_ServerNeverThrows ==
    \A r \in Reqs : Done(r) => serverTranslateText(req[r]).kind = "return"

\* C9: after a call in which the primary provider was called and its call
\* failed, the primary's health record has status error.
C9_PrimaryFailureRecorded ==
    \A r \in Reqs :
        (Done(r) /\ req[r].att # <<>> /\ req[r].att[1].svc = currentService
                 /\ req[r].att[1].net /\ ~req[r].att[1].ok)
        => serviceHealth[currentService].status = "error"

\* C10: after a call that returned a fallback's result, that fallback's
\* health record has status healthy.
C10_FallbackSuccessRecorded ==
    \A r \in Reqs :
        (Done(r) /\ req[r].att # <<>> /\ req[r].att[Len(req[r].att)].ok
                 /\ req[r].att[Len(req[r].att)].svc \in Fallbacks
                 /\ req[r].out = Return(req[r].att[Len(req[r].att)].val))
        => serviceHealth[req[r].att[Len(req[r].att)].svc].status = "healthy"

\* The call returned the result of its last provider attempt.
ReturnedProviderResult(s) ==
    /\ s.pc = "done"
    /\ s.att # <<>>
    /\ s.att[Len(s.att)].ok
    /\ s.out = Return(s.att[Len(s.att)].val)

\* C11: the step in which a call returns a provider's translation leaves an
\* entry with that value under the call's key, and a request that begins
\* while an entry written so is present and not expired returns the entry's
\* value from the cache.
C11_ReturnedIsCached ==
    [][\A r \in Reqs :
          /\ (InFlight(r) /\ ReturnedProviderResult(req'[r]))
             => /\ CacheLive(cache', KeyOf(req'[r]), now')
                /\ cache'[KeyOf(req'[r])].v = req'[r].out.val
          /\ (Begins(r) /\ WellFormed(req'[r]) /\ CacheLive(cache, KeyOf(req'[r]), now))
             => req'[r].out = Return(cache[KeyOf(req'[r])].v)]_vars

\* C12: an administrative step that changes the cache (clearCache) leaves no
\* entry, and a request that begins while its key has no entry is a miss: it
\* is rejected by the rate check or waits on the primary provider.
C12_ClearCacheForgets ==
    [][/\ (cache' # cache /\ req' = req) => DOMAIN cache' = {}
       /\ \A r \in Reqs :
             (Begins(r) /\ WellFormed(req'[r]) /\ KeyOf(req'[r]) \notin DOMAIN cache)
             => \/ req'[r].pc = "google"
                \/ req'[r].out = Throw(RateLimited) /\ req'[r].att = <<>>]_vars

\* A request waits on the primary provider with nothing cached although a
\* translation was cached at this very time: the cache was cleared since.
C12_Witness ==
    /\ req[1].pc = "google"
    /\ cache = <<>>
    /\ now \in DOMAIN requestCounts

\* The credentials of the service are absent.
NoCredentials(s) == IF s \in Fallbacks THEN ~env[s] ELSE ~googleTranslate

\* C13: a fallback without credentials starts with status unconfigured; no
\* step of a translateText call takes a service without credentials away
\* from status unconfigured, and no attempt of a call contacts such a
\* service over the network.
C13_UnconfiguredUntouched ==
    /\ \A s \in Fallbacks : ~env[s] => serviceHealth[s].status = "unconfigured"
    /\ [][\A s \in Services :
             (NoCredentials(s) /\ req' # req)
             => /\ serviceHealth[s].status = "unconfigured"
                      => serviceHealth'[s].status = "unconfigured"
                /\ \A r \in Reqs : \A i \in DOMAIN req'[r].att :
                      req'[r].att[i].svc = s => ~req'[r].att[i].net]_vars

\* A call has walked the chain past the primary without a key and a
\* fallback without credentials to a configured fallback.
C13_Witness ==
    \E r \in Reqs :
        /\ Done(r)
        /\ ~googleTranslate
        /\ serviceHealth[currentService].status = "unconfigured"
        /\ ~env["azure"]
        /\ serviceHealth["azure"].status = "unconfigured"
        /\ Len(req[r].att) = 2
        /\ req[r].att[1] = Attempt(currentService, FALSE, <<>>, FALSE)
        /\ req[r].att[2].svc = "deepl"

C15_RejectionIsFree ==
    [][\A r \in Reqs :
          (Begins(r) /\ req'[r].out = Throw(RateLimited))
          => /\ req'[r].pc = "done"
             /\ req'[r].att = <<>>
             /\ \A k \in DOMAIN cache' : k \in DOMAIN cache /\ cache'[k] = cache[k]
             /\ serviceHealth' = serviceHealth
             /\ \A ts \in DOMAIN requestCounts' :
                   ts \in DOMAIN requestCounts /\ requestCounts'[ts] = requestCounts[ts]]_vars

C15_Witness ==
    \E r \in Reqs :
        /\ Done(r)
        /\ req[r].out = Throw(RateLimited)
        /\ SumCounts(requestCounts) = maxRequests

\* The place of a service in the chain: the primary, then the fallbacks in
\* the order of the list.
C16_Place(s) ==
    IF s = currentService THEN 0
    ELSE CHOOSE j \in DOMAIN fallbackServices : fallbackServices[j] = s

\* C16: the attempts of a call start with the primary and go down the chain
\* in its order (so none is made twice), and each attempt but the first
\* follows an attempt that failed.
C16_FixedOrderNoRetry ==
    \A r \in Reqs : \A i \in DOMAIN req[r].att :
        /\ i = 1 => req[r].att[i].svc = currentService
        /\ i > 1 => /\ C16_Place(req[r].att[i].svc) > C16_Place(req[r].att[i - 1].svc)
                    /\ ~req[r].att[i - 1].ok

\* The count recorded in the rate window at time t.
C17_CountAt(rc, t) == IF t \in DOMAIN rc THEN rc[t] ELSE 0

\* C17: the step that ends a call that passed the rate check and went out
\* to a provider adds exactly one to the rate window, whether the call
\* returns a provider's result or the degraded passthrough.
C17_AdmissionRecorded ==
    [][\A r \in Reqs :
          (InFlight(r) /\ req'[r].pc = "done"
                       /\ \E i \in DOMAIN req'[r].att : req'[r].att[i].net)
          => C17_CountAt(requestCounts', now) = C17_CountAt(requestCounts, now) + 1]_vars

\* C18: no step takes a fallback without credentials away from status
\* unconfigured.
C18_UnconfiguredIsTerminal ==
    [][\A s \in Fallbacks :
          (~env[s] /\ serviceHealth[s].status = "unconfigured")
          => serviceHealth'[s].status = "unconfigured"]_vars

\* C19: a health record with status healthy or configured carries no error
\* message.
C19_NoStaleError ==
    \A s \in Services :
        serviceHealth[s].status \in {"healthy", "configured"} => serviceHealth[s].error = NoError

\* C20: no step that is not a step of a translateText call takes the record
\* of a fallback with credentials that has been called (status healthy or
\* error) back to a status of configuration presence, or drops its error
\* message.
C20_RecheckKeepsExercised ==
    [][\A s \in Fallbacks :
          (req' = req /\ env[s] /\ serviceHealth[s].status \in {"healthy", "error"})
          => /\ serviceHealth'[s].status \in {"healthy", "error"}
             /\ serviceHealth[s].error # NoError => serviceHealth'[s].error # NoError]_vars

\* C21: no record is healthy in the state after startup, and a step that
\* makes a record healthy is a step in which a call to that provider
\* succeeded: an attempt of a translateText call, or a test of a provider
\* that has credentials.
C21_HealthyOnlyAfterSuccess ==
    /\ \A s \in Services : serviceHealth[s].status # "healthy"
    /\ [][\A s \in Services :
             (serviceHealth[s].status # "healthy" /\ serviceHealth'[s].status = "healthy")
             => \/ \E r \in Reqs :
                      /\ Len(req'[r].att) = Len(req[r].att) + 1
                      /\ req'[r].att[Len(req'[r].att)].svc = s
                      /\ req'[r].att[Len(req'[r].att)].ok
                \/ req' = req /\ ~NoCredentials(s)]_vars

C23_FailureIsRecoverable ==
    \A s \in Fallbacks :
        (env[s] /\ serviceHealth[s].status = "error") ~> (serviceHealth[s].status = "configured")

\* A call in which azure failed waits on deepl, and azure is configured
\* again already.
C23_Witness ==
    /\ req[1].pc = "fallback"
    /\ req[1].idx = 2
    /\ req[1].att = <<Attempt(currentService, FALSE, <<>>, TRUE), Attempt("azure", FALSE, <<>>, TRUE)>>
    /\ serviceHealth["azure"].status = "configured"

\* C26: every call that waits on a provider ends.
C26_EveryCallEnds ==
    \A r \in Reqs : InFlight(r) ~> Done(r)

\* C24: the step in which the primary's call succeeds ends the call with the
\* primary's result and changes no health record, and no call holds an
\* attempt after a successful attempt of the primary.
C24_PrimarySuccessStopsWalk ==
    [][\A r \in Reqs :
          /\ (req[r].pc = "google" /\ req'[r].att # <<>> /\ req'[r].att[1].ok)
             => /\ req'[r].pc = "done"
                /\ req'[r].out = Return(req'[r].att[1].val)
                /\ serviceHealth' = serviceHealth
          /\ (req'[r].att # <<>> /\ req'[r].att[1].ok) => Len(req'[r].att) = 1]_vars

C24_Witness ==
    \E r \in Reqs :
        /\ Done(r)
        /\ req[r].att = <<Attempt(currentService, TRUE, <<"G", "a">>, TRUE)>>
        /\ \E s \in Fallbacks : serviceHealth[s].status = "configured"
        /\ \E s \in Fallbacks : serviceHealth[s].status = "error"

\* C25: an entry is written with an expiry of now + TTL; a request whose
\* key has an entry is a miss that removes the entry (it is rejected by the
\* rate check or waits on the primary) when the expiry has passed, and
\* returns the entry's value without trying a provider when it has not.
C25_ExpiryAfterTTL ==
    [][\A r \in Reqs :
          /\ (InFlight(r) /\ ReturnedProviderResult(req'[r]))
             => cache'[KeyOf(req'[r])].t = now + stdTTL
          /\ (Begins(r) /\ WellFormed(req'[r]) /\ KeyOf(req'[r]) \in DOMAIN cache)
             => IF now > cache[KeyOf(req'[r])].t
                THEN /\ KeyOf(req'[r]) \notin DOMAIN cache'
                     /\ \/ req'[r].pc = "google"
                        \/ req'[r].out = Throw(RateLimited)
                ELSE /\ req'[r].pc = "done"
                     /\ req'[r].att = <<>>
                     /\ req'[r].out = Return(cache[KeyOf(req'[r])].v)]_vars

\* C27: an omitted source language and the source 'auto' are sent to the
\* providers as the same language, and a request with one of them is served
\* from the cache when the request with the other one, for the same text
\* and target, has a present, non-expired, non-empty entry.
C27_OmittedSourceIsAuto ==
    /\ fromLanguage(Undefined) = fromLanguage(<<"a", "u", "t", "o">>)
    /\ [][\A r \in Reqs : \A other \in {Undefined, <<"a", "u", "t", "o">>} :
             (Begins(r) /\ req'[r].src \in {Undefined, <<"a", "u", "t", "o">>} \ {other}
                        /\ CacheLive(cache, cacheKey(req'[r].text, other, req'[r].tgt), now)
                        /\ Truthy(cache[cacheKey(req'[r].text, other, req'[r].tgt)].v))
             => /\ req'[r].pc = "done"
                /\ req'[r].att = <<>>
                /\ req'[r].out = Return(cache[cacheKey(req'[r].text, other, req'[r].tgt)].v)]_vars

\* C30: the value a call returns from the cache is a provider's translation
\* of the call's own text.
C30_NoSharedEntry ==
    \A r \in Reqs :
        (Done(r) /\ req[r].att = <<>> /\ req[r].out.kind = "return")
        => req[r].out.val \in {Translation(s, req[r].text) : s \in Services}

\* C28: there is one health record for each of google, azure, deepl and
\* microsoft, and its status is unconfigured, configured, healthy or error.
C28_OneRecordPerProvider ==
    /\ DOMAIN serviceHealth = {"google", "azure", "deepl", "microsoft"}
    /\ \A s \in DOMAIN serviceHealth :
          serviceHealth[s].status \in {"unconfigured", "configured", "healthy", "error"}

\* The four statuses at once, while a call waits on microsoft.
C28_Witness ==
    /\ serviceHealth["google"].status = "healthy"
    /\ serviceHealth["azure"].status = "unconfigured"
    /\ serviceHealth["deepl"].status = "error"
    /\ serviceHealth["microsoft"].status = "configured"
    /\ env["deepl"]
    /\ \E r \in Reqs : req[r].pc = "fallback" /\ req[r].idx = 3

C31_SuccessEndsWalk ==
    \A r \in Reqs : \A i \in DOMAIN req[r].att :
        req[r].att[i].ok
        => /\ i = Len(req[r].att)
           /\ Done(r) => /\ req[r].out = Return(req[r].att[i].val)
                         /\ KeyOf(req[r]) \in DOMAIN cache
                         /\ cache[KeyOf(req[r])].v = req[r].att[i].val

C33_TestOutsideAdmission ==
    [][/\ \A s \in Fallbacks :
             (NoneDone /\ isRateLimited(requestCounts, now)) => ENABLED testService(s)
       /\ \A s \in Fallbacks :
             (req' = req /\ serviceHealth'[s] # serviceHealth[s]
                         /\ serviceHealth'[s].status \in {"healthy", "error"})
             => /\ requestCounts' = requestCounts
                /\ cache' = cache
                /\ \A o \in Services \ {s} : serviceHealth'[o] = serviceHealth[o]]_vars

\* A provider has been tested with success while the window is at its
\* ceiling and a translation is cached.
C33_Witness ==
    /\ isRateLimited(requestCounts, now)
    /\ now \in DOMAIN requestCounts
    /\ requestCounts[now] = maxRequests
    /\ cache # <<>>
    /\ serviceHealth["azure"].status = "healthy"
    /\ \A r \in Reqs : req[r].pc = "idle"

\* C34: on the relay server, once a client has disconnected, its socket id
\* is a participant of no session and has no entry in the clients map,
\* whatever join-session events it sent before, several different sessions
\* included.  (Stated for the sessions with a
\* non-empty id, the last one joined among them.)
C34_DisconnectLeavesNoTrace ==
    [][\A id \in SocketIds :
          (sockets[id] = "open" /\ sockets'[id] = "closed" /\ Truthy(clients[id].sessionId)) =>
              /\ id \notin DOMAIN clients'
              /\ \A sessionId \in DOMAIN sessions' :
                     Truthy(sessionId) => id \notin sessions'[sessionId].participants]_vars

\* C35: in the browser client, with two translate requests outstanding on
\* the same socket, each request's promise resolves with the translation of
\* its own text: a 'translation-sent' response for one request never
\* resolves the other request.
C35_OwnTranslation ==
    \A c \in Calls :
        promises[c].state = "resolved" =>
            promises[c].val \in {serverTranslateText(s).val : s \in FinishedCalls(promises[c].text)}
                                    \cup {browserFallback(promises[c].text)}

\* C36: on the relay server the sessions map never holds a session with
\* zero participants: after any sequence of connect, join-session and
\* disconnect events, every stored session has at least one participant.
C36_NoEmptySession ==
    \A sessionId \in DOMAIN sessions : sessions[sessionId].participants # {}

\* The last participant of session B has disconnected and the session is
\* gone, while session A still has its participant.
C36_Witness ==
    /\ sockets = [id \in SocketIds |-> IF id = "s3" THEN "new" ELSE IF id = "s2" THEN "open" ELSE "closed"]
    /\ DOMAIN sessions = {<<"A">>}
    /\ sessions[<<"A">>].participants = {"s1", "s2"}
    /\ DOMAIN clients = {"s2"}
    /\ clients["s2"].sessionId = <<"A">>

====
